---- MODULE Spec2Model ----
(***************************************************************************)
(* The auction server: the bid engine (POST /api/auctions/:id/bids), the   *)
(* lifecycle sweep (setInterval), the seller decision and counter-offer    *)
(* handlers, and the notification fanout.  Every handler is an async       *)
(* function: it is cut at its awaited store calls, one action per store    *)
(* call together with the synchronous code that follows it up to the next  *)
(* await.  Money is counted in cents, time in minutes.                     *)
(*                                                                         *)
(* The repository holds two servers: the current one (ORM path and         *)
(* store path, chosen by whether AuctionModel is configured) and the       *)
(* earlier apps/server/src/index.ts ("legacy").  Which one runs is fixed   *)
(* at process start: the variable server, "store", "orm" (the ORM path     *)
(* with no Redis configured: getRedis() is null), "redis" (the ORM path    *)
(* with the Upstash lock) or "legacy".                                     *)
(***************************************************************************)
EXTENDS Integers, Sequences, FiniteSets, Bags, TLC

\* ---- bounds of the model
MaxTime == 2
MaxAmount == 5
MaxBids == 2
MaxFailures == 1
MaxCreateTime == 0
MaxCounters == 1
MaxResponds == 2

Users == {"s1", "b1", "b2"}
Sellers == {"s1"}
AuctionIds == {"a1", "a2"}
FirstAuction == {"a1"}
ReqIds == {1, 2}
SweepIds == {1, 2}
Servers == {"store", "orm", "redis", "legacy"}
NoUser == "none"

\* inputs of POST /api/auctions drawn by CreateAuction
StartingPrices == {-1, 1}
BidIncrements == {0, 2}
Durations == {1}
Amounts == (-1)..MaxAmount

VARIABLES
  server,         \* which handlers run, and whether Redis is configured
  now,            \* the wall clock (new Date())
  auctions,       \* table auctions: id -> row
  bids,           \* table bids, in insertion order
  req,            \* the requests in flight: slot -> locals of the handler
  sweep,          \* the runs of the setInterval callback: slot -> its locals
  counterOffers,  \* table counter_offers, in insertion order (the id is the position)
  responds,       \* requests to respond to a counter-offer received so far
  lock,           \* Redis key lock:auction:<id> -> value (the userId that set it)
  broadcasts,     \* bag of the messages given to broadcastMessage
  notifications,  \* table notifications (bag of rows)
  failures,       \* store calls that have failed so far
  reply           \* the reply sent by the last step: its result and the minimum bid it echoes

vars == <<server, now, auctions, bids, req, sweep, counterOffers, responds, lock, broadcasts,
          notifications, failures, reply>>

\* AuctionModel && BidModel
Orm == server \in {"orm", "redis"}

NoAuction ==
  [sellerId |-> NoUser, startingPrice |-> 0, currentPrice |-> 0, bidIncrement |-> 0,
   goLiveAt |-> 0, endsAt |-> 0, status |-> "none"]

Idle ==
  [kind |-> "idle", pc |-> "done", userId |-> NoUser, auctionId |-> "a1", amount |-> 0,
   now |-> 0, auction |-> NoAuction, prevTopBidder |-> NoUser, locked |-> FALSE,
   result |-> "", minBid |-> 0, decision |-> "", counterId |-> 0]

NoSweep == [pc |-> "idle", now |-> 0, ids |-> {}, cur |-> "a1"]

NoReply == [kind |-> "idle", result |-> "", minBid |-> 0]

Msg(type, a, u, nt, amt) ==
  [type |-> type, auctionId |-> a, userId |-> u, ntype |-> nt, amount |-> amt, reason |-> ""]

\* the message of notify(u, nt, { auctionId: a, amount: amt, reason: why })
Note(u, nt, a, amt, why) == [Msg("notification", a, u, nt, amt) EXCEPT !.reason = why]

\* broadcastMessage(message)
broadcastMessage(log, m) == log (+) SetToBag({m})

\* a notify that broadcasts nothing
notifyBroadcast_Silent(log, u, nt, a, amt) == log

\* the broadcast half of notify(userId, type, payload)
notifyBroadcast(log, u, nt, a, amt) ==
  broadcastMessage(log, Msg("notification", a, u, nt, amt))

\* the persisting half of notify: the row is inserted when ok, and an error is ignored
persistRow(rows, ok, m) == IF ok THEN rows (+) SetToBag({m}) ELSE rows
notifyPersist(rows, ok, u, nt, a, amt) == persistRow(rows, ok, Msg("notification", a, u, nt, amt))

\* CreateAuctionSchema: startingPrice >= 0, bidIncrement >= 0.01, 1 <= durationMinutes <= 10080
CreateAuctionSchema(sp, inc, dur) == sp >= 0 /\ inc >= 1 /\ dur >= 1 /\ dur <= 10080

\* PlaceBidSchema: amount >= 0
PlaceBidSchema(amt) == amt >= 0

\* the activity check without the comparison of now with endsAt
NotActive_StatusOnly(a, t) == a.status # "live"

\* now > endsAt || auction.status !== 'live'
NotActive(a, t) == t > a.endsAt \/ a.status # "live"

\* minBid = currentPrice + bidIncrement
MinBid(a) == a.currentPrice + a.bidIncrement

\* the rows of bids of one auction, as indices
BidsOf(a) == {i \in DOMAIN bids : bids[i].auctionId = a}

\* the order reversed: any row of least amount
TopByAmount_Ascending(a) ==
  {i \in BidsOf(a) : \A j \in BidsOf(a) : bids[i].amount <= bids[j].amount}

\* .order('amount', desc).limit(1): any row of greatest amount
TopByAmount(a) ==
  {i \in BidsOf(a) : \A j \in BidsOf(a) : bids[j].amount <= bids[i].amount}

\* .order('createdAt', desc).limit(1): any row of latest createdAt
TopByCreatedAt(a) ==
  {i \in BidsOf(a) : \A j \in BidsOf(a) : bids[j].createdAt <= bids[i].createdAt}

Busy(r) == req[r].pc # "done"

\* place-bid requests that have passed their checks and not yet returned
InFlight == Cardinality({r \in ReqIds : req[r].kind = "placeBid" /\ Busy(r)})

\* a request is served by the lowest free slot
FreeSlot(r) == ~Busy(r) /\ \A q \in ReqIds : q < r => Busy(q)

\* a server that has just started on an empty store
Fresh ==
  /\ now = 0
  /\ auctions = [a \in AuctionIds |-> NoAuction]
  /\ bids = <<>>
  /\ req = [r \in ReqIds |-> Idle]
  /\ sweep = [w \in SweepIds |-> NoSweep]
  /\ counterOffers = <<>>
  /\ responds = 0
  /\ lock = [a \in AuctionIds |-> NoUser]
  /\ broadcasts = EmptyBag
  /\ notifications = EmptyBag
  /\ reply = NoReply

Init ==
  /\ server \in Servers
  /\ failures = 0
  /\ Fresh

\* time passes
Tick ==
  /\ now < MaxTime
  /\ now' = now + 1
  /\ reply' = NoReply
  /\ UNCHANGED <<server, auctions, bids, req, sweep, counterOffers, responds, lock, broadcasts,
                 notifications, failures>>

\* every new auction waits for the sweep
InitialStatus_Scheduled(t, glv) == "scheduled"

\* status: now >= goLiveAt ? 'live' : 'scheduled'
InitialStatus(t, glv) == IF t >= glv THEN "live" ELSE "scheduled"

\* POST /api/auctions
CreateAuction(a, u, sp, inc, glv, dur) ==
  /\ UNCHANGED <<sweep, counterOffers, responds>>
  /\ auctions[a].status = "none"
  /\ now <= MaxCreateTime
  /\ IF ~CreateAuctionSchema(sp, inc, dur)
       THEN UNCHANGED <<auctions, broadcasts, failures>>
       ELSE \/ /\ auctions' = [auctions EXCEPT ![a] =
                    [sellerId |-> u, startingPrice |-> sp, currentPrice |-> sp,
                     bidIncrement |-> inc, goLiveAt |-> glv, endsAt |-> glv + dur,
                     status |-> InitialStatus(now, glv)]]
               /\ broadcasts' = broadcastMessage(broadcasts, Msg("auction:created", a, u, "", sp))
               /\ UNCHANGED failures
            \/ /\ failures < MaxFailures
               /\ failures' = failures + 1
               /\ UNCHANGED <<auctions, broadcasts>>
  /\ reply' = NoReply
  /\ UNCHANGED <<server, now, bids, req, lock, notifications>>

\* the handler returns: the result is the reply, the locals are dropped
Finish(q, res, min) == [Idle EXCEPT !.kind = q.kind, !.result = res, !.minBid = min]

\* the slot as it is kept in req, and the reply sent by this step (none when the
\* handler goes on)
Slot(q) == IF q.pc = "done" THEN Idle ELSE q
ReplyOf(q) ==
  IF q.pc = "done" THEN [kind |-> q.kind, result |-> q.result, minBid |-> q.minBid] ELSE NoReply

\* slot r goes on with the locals q, or returns when q is finished
Advance(r, q) ==
  /\ req' = [req EXCEPT ![r] = Slot(q)]
  /\ reply' = ReplyOf(q)

\* the checks of the store path without the minimum-bid check
StoreChecks_NoMinimum(q, a) ==
  IF ~PlaceBidSchema(q.amount) THEN Finish(q, "invalid", 0)
  ELSE IF a.status = "none" THEN Finish(q, "not_found", 0)
  ELSE IF a.sellerId = q.userId THEN Finish(q, "forbidden", 0)
  ELSE IF NotActive(a, q.now) THEN Finish(q, "not_active", 0)
  ELSE [q EXCEPT !.pc = "top", !.auction = a]

\* the checks of the store path, in order, on the row that was read
StoreChecks(q, a) ==
  IF ~PlaceBidSchema(q.amount) THEN Finish(q, "invalid", 0)
  ELSE IF a.status = "none" THEN Finish(q, "not_found", 0)
  ELSE IF a.sellerId = q.userId THEN Finish(q, "forbidden", 0)
  ELSE IF NotActive(a, q.now) THEN Finish(q, "not_active", 0)
  ELSE IF q.amount < MinBid(a) THEN Finish(q, "min_bid", MinBid(a))
  ELSE [q EXCEPT !.pc = "top", !.auction = a]

\* the checks of the ORM path.  The code runs the activity and minimum checks after
\* the await of the top-bid read, on the row read here and the now taken before it:
\* that read changes nothing for a refused request, so its reply is given here
OrmChecks(q, a) ==
  IF ~PlaceBidSchema(q.amount) THEN Finish(q, "invalid", 0)
  ELSE IF a.status = "none" THEN Finish(q, "not_found", 0)
  ELSE IF a.sellerId = q.userId THEN Finish(q, "forbidden", 0)
  ELSE IF NotActive(a, q.now) THEN Finish(q, "not_active", 0)
  ELSE IF q.amount < MinBid(a) THEN Finish(q, "min_bid", MinBid(a))
  ELSE [q EXCEPT !.pc = "top", !.auction = a]

\* the checks of apps/server/src/index.ts
LegacyChecks(q, a) ==
  IF ~PlaceBidSchema(q.amount) THEN Finish(q, "invalid", 0)
  ELSE IF a.status = "none" THEN Finish(q, "not_found", 0)
  ELSE IF NotActive(a, q.now) THEN Finish(q, "not_active", 0)
  ELSE IF q.amount <= a.currentPrice THEN Finish(q, "higher", 0)
  ELSE IF q.amount < MinBid(a) THEN Finish(q, "min_bid", MinBid(a))
  ELSE [q EXCEPT !.pc = "update", !.auction = a]

\* the checks of the server that runs
Checks(q, a) ==
  CASE server = "store" -> StoreChecks(q, a)
    [] Orm -> OrmChecks(q, a)
    [] OTHER -> LegacyChecks(q, a)

\* the locals of a bid request by u for amt on a, with now taken at t
BidRequest(u, a, amt, t) ==
  [Idle EXCEPT !.kind = "placeBid", !.userId = u, !.auctionId = a, !.amount = amt, !.now = t]

\* the now of a request whose row is read at the present moment: the current server
\* takes now before the awaits that precede the read, the legacy one after the read
Times == IF server = "legacy" THEN {now} ELSE 0..now

\* POST /api/auctions/:id/bids: a request by u for amt with now taken at t reads the
\* auction row and checks it
PlaceBid_Load(r, u, a, amt, t) ==
  /\ UNCHANGED <<sweep, counterOffers, responds>>
  /\ FreeSlot(r)
  /\ Len(bids) + InFlight < MaxBids
  /\ t \in Times
  /\ Advance(r, Checks(BidRequest(u, a, amt, t), auctions[a]))
  /\ UNCHANGED <<server, now, auctions, bids, lock, broadcasts, notifications, failures>>

\* the previous top bid is read (greatest amount)
PlaceBid_Top(r) ==
  /\ UNCHANGED <<sweep, counterOffers, responds>>
  /\ req[r].kind = "placeBid" /\ req[r].pc = "top"
  /\ \E top \in IF BidsOf(req[r].auctionId) = {} THEN {NoUser}
                ELSE {bids[i].bidderId : i \in TopByAmount(req[r].auctionId)} :
       Advance(r, [req[r] EXCEPT !.pc = IF server = "redis" THEN "lock" ELSE "update",
                                 !.prevTopBidder = top])
  /\ UNCHANGED <<server, now, auctions, bids, lock, broadcasts, notifications, failures>>

\* ORM path with Redis: r.set(lockKey, userId, {nx, ex: 5}); an error or a held key
\* leave locked false, and the request goes on
PlaceBid_Lock(r) ==
  /\ UNCHANGED <<sweep, counterOffers, responds>>
  /\ req[r].kind = "placeBid" /\ req[r].pc = "lock"
  /\ \/ /\ lock[req[r].auctionId] = NoUser
        /\ lock' = [lock EXCEPT ![req[r].auctionId] = req[r].userId]
        /\ Advance(r, [req[r] EXCEPT !.pc = "update", !.locked = TRUE])
     \/ /\ UNCHANGED lock
        /\ Advance(r, [req[r] EXCEPT !.pc = "update"])
  /\ UNCHANGED <<server, now, auctions, bids, broadcasts, notifications, failures>>

\* the key expires (ex: 5)
LockExpire(a) ==
  /\ UNCHANGED <<sweep, counterOffers, responds>>
  /\ lock[a] # NoUser
  /\ lock' = [lock EXCEPT ![a] = NoUser]
  /\ reply' = NoReply
  /\ UNCHANGED <<server, now, auctions, bids, req, broadcasts, notifications, failures>>

\* a store write of the commit section failed and the handler returns at once
CommitFailed_NoFinally(q) == Finish(q, "failed", 0)

\* a store write of the commit section failed: the ORM path runs its finally first
CommitFailed(q) ==
  IF q.locked
    THEN [q EXCEPT !.pc = "unlock", !.result = "failed"]
    ELSE Finish(q, "failed", 0)

\* the row written by update({ currentPrice: amount }).eq('id', id)
PriceUpdate(row, q) == [row EXCEPT !.currentPrice = q.amount]

\* the price is written
PlaceBid_Update(r) ==
  /\ UNCHANGED <<sweep, counterOffers, responds>>
  /\ req[r].kind = "placeBid" /\ req[r].pc = "update"
  /\ \/ /\ auctions' = [auctions EXCEPT ![req[r].auctionId] = PriceUpdate(@, req[r])]
        /\ Advance(r, [req[r] EXCEPT !.pc = "insert"])
        /\ UNCHANGED failures
     \/ /\ failures < MaxFailures
        /\ failures' = failures + 1
        /\ Advance(r, CommitFailed(req[r]))
        /\ UNCHANGED auctions
  /\ UNCHANGED <<server, now, bids, lock, broadcasts, notifications>>

\* prevTopBidder && prevTopBidder !== userId
Outbid(q) == q.prevTopBidder # NoUser /\ q.prevTopBidder # q.userId

\* after the commit: broadcast bid:accepted, notify the seller (new_bid) and the
\* previous top bidder (outbid); a notification that cannot be stored is dropped
AfterCommit(r) ==
  LET q == req[r]
      b1 == broadcastMessage(broadcasts, Msg("bid:accepted", q.auctionId, q.userId, "", q.amount))
      b2 == notifyBroadcast(b1, q.auction.sellerId, "new_bid", q.auctionId, q.amount)
      b3 == notifyBroadcast(b2, q.prevTopBidder, "outbid", q.auctionId, q.amount)
  IN /\ Advance(r, Finish(q, "success", 0))
     /\ IF server = "legacy"
          THEN /\ broadcasts' = b1
               /\ UNCHANGED <<notifications, failures>>
          ELSE /\ broadcasts' = IF Outbid(q) THEN b3 ELSE b2
               /\ \E ok1, ok2 \in BOOLEAN :
                    LET lost == (IF ok1 THEN 0 ELSE 1) + (IF ok2 THEN 0 ELSE 1)
                        n1 == notifyPersist(notifications, ok1, q.auction.sellerId,
                                            "new_bid", q.auctionId, q.amount)
                    IN /\ (~Outbid(q) => ok2)
                       /\ failures + lost <= MaxFailures
                       /\ failures' = failures + lost
                       /\ notifications' =
                            IF Outbid(q)
                              THEN notifyPersist(n1, ok2, q.prevTopBidder, "outbid",
                                                 q.auctionId, q.amount)
                              ELSE n1

\* the row inserted into bids
BidRow(q) ==
  [auctionId |-> q.auctionId, bidderId |-> q.userId, amount |-> q.amount, createdAt |-> q.now]

\* the bid row is inserted
PlaceBid_Insert(r) ==
  /\ UNCHANGED <<sweep, counterOffers, responds>>
  /\ req[r].kind = "placeBid" /\ req[r].pc = "insert"
  /\ \/ /\ bids' = Append(bids, BidRow(req[r]))
        /\ IF req[r].locked
             THEN /\ Advance(r, [req[r] EXCEPT !.pc = "unlock", !.result = "success"])
                  /\ UNCHANGED <<broadcasts, notifications, failures>>
             ELSE AfterCommit(r)
     \/ /\ failures < MaxFailures
        /\ failures' = failures + 1
        /\ Advance(r, CommitFailed(req[r]))
        /\ UNCHANGED <<bids, broadcasts, notifications>>
  /\ UNCHANGED <<server, now, auctions, lock>>

\* ORM path, finally: r.del(lockKey) when locked; an error of del is ignored
PlaceBid_Unlock(r) ==
  /\ UNCHANGED <<sweep, counterOffers, responds>>
  /\ req[r].kind = "placeBid" /\ req[r].pc = "unlock"
  /\ \/ lock' = [lock EXCEPT ![req[r].auctionId] = NoUser]
     \/ UNCHANGED lock
  /\ IF req[r].result = "failed"
       THEN /\ Advance(r, Finish(req[r], "failed", 0))
            /\ UNCHANGED <<broadcasts, notifications, failures>>
       ELSE AfterCommit(r)
  /\ UNCHANGED <<server, now, auctions, bids>>

\* ---- the lifecycle sweep: setInterval(async () => {...}, 30000)

SweepFrame ==
  /\ reply' = NoReply
  /\ UNCHANGED <<server, now, bids, req, counterOffers, responds, lock>>

\* .lt in place of .lte: an auction whose goLiveAt is now is not selected
ToLive_Strict(t) == {a \in AuctionIds : auctions[a].status = "scheduled" /\ auctions[a].goLiveAt < t}

\* the comparison reversed: the scheduled auctions whose goLiveAt is still ahead
ToLive_Future(t) == {a \in AuctionIds : auctions[a].status = "scheduled" /\ auctions[a].goLiveAt > t}

\* .eq('status', 'scheduled').lte('goLiveAt', now)
ToLive(t) == {a \in AuctionIds : auctions[a].status = "scheduled" /\ auctions[a].goLiveAt <= t}

\* .lte in place of .lt: an auction whose endsAt is now is selected
Expired_Inclusive(t) == {a \in AuctionIds : auctions[a].status = "live" /\ auctions[a].endsAt <= t}

\* .eq('status', 'live').lt('endsAt', now)
Expired(t) == {a \in AuctionIds : auctions[a].status = "live" /\ auctions[a].endsAt < t}

\* update({ status }).in('id', ids)
SetStatus(rows, ids, st) ==
  [a \in AuctionIds |-> IF a \in ids THEN [rows[a] EXCEPT !.status = st] ELSE rows[a]]

\* one broadcast of the given type for each id
BroadcastEach(log, type, ids) ==
  log (+) [m \in {Msg(type, a, NoUser, "", 0) : a \in ids} |-> 1]

\* the expired auctions have been selected and the batch is processed even when it
\* is empty
Selected_NoGuard(t) ==
  [NoSweep EXCEPT !.pc = "expire", !.now = t, !.ids = Expired(t)]

\* the expired auctions have been selected at the sweep's now
Selected(t) ==
  IF Expired(t) = {} THEN NoSweep
  ELSE [NoSweep EXCEPT !.pc = "expire", !.now = t, !.ids = Expired(t)]

\* a store call fails
StoreFails ==
  /\ failures < MaxFailures
  /\ failures' = failures + 1

\* the timer fires: now is taken and the first select runs (the scheduled auctions
\* due to go live; in the legacy server, which has no promotion, the expired ones)
Sweep_Start(w) ==
  /\ sweep[w].pc = "idle"
  /\ \A v \in SweepIds : v < w => sweep[v].pc # "idle"
  /\ IF server = "legacy"
       THEN \/ /\ sweep' = [sweep EXCEPT ![w] = Selected(now)]
               /\ UNCHANGED failures
            \/ /\ StoreFails
               /\ UNCHANGED sweep
       ELSE \/ /\ sweep' = [sweep EXCEPT ![w] =
                    IF ToLive(now) = {}
                      THEN [NoSweep EXCEPT !.pc = "select", !.now = now]
                      ELSE [NoSweep EXCEPT !.pc = "promote", !.now = now, !.ids = ToLive(now)]]
               /\ UNCHANGED failures
            \/ /\ StoreFails
               /\ sweep' = [sweep EXCEPT ![w] = [NoSweep EXCEPT !.pc = "select", !.now = now]]
  /\ UNCHANGED <<auctions, broadcasts, notifications>>
  /\ SweepFrame

\* the timer fires while no earlier run is in progress
Sweep_StartAlone(w) ==
  /\ \A v \in SweepIds : sweep[v].pc = "idle"
  /\ Sweep_Start(w)

\* the selected auctions are set live and auction:live is broadcast for each
Sweep_Promote(w) ==
  /\ sweep[w].pc = "promote"
  /\ \/ /\ auctions' = SetStatus(auctions, sweep[w].ids, "live")
        /\ broadcasts' = BroadcastEach(broadcasts, "auction:live", sweep[w].ids)
        /\ UNCHANGED failures
     \/ /\ StoreFails
        /\ UNCHANGED <<auctions, broadcasts>>
  /\ sweep' = [sweep EXCEPT ![w] = [NoSweep EXCEPT !.pc = "select", !.now = sweep[w].now]]
  /\ UNCHANGED notifications
  /\ SweepFrame

\* the expired auctions are selected
Sweep_Select(w) ==
  /\ sweep[w].pc = "select"
  /\ \/ /\ sweep' = [sweep EXCEPT ![w] = Selected(sweep[w].now)]
        /\ UNCHANGED failures
     \/ /\ StoreFails
        /\ sweep' = [sweep EXCEPT ![w] = NoSweep]
  /\ UNCHANGED <<auctions, broadcasts, notifications>>
  /\ SweepFrame

\* the next auction of the batch: auction:ended is broadcast for it and its top bid
\* is looked up; after the last one the run is over
NextEnded(w, rest, log) ==
  IF rest = {}
    THEN /\ sweep' = [sweep EXCEPT ![w] = NoSweep]
         /\ broadcasts' = log
    ELSE \E a \in rest :
           /\ sweep' = [sweep EXCEPT ![w] = [sweep[w] EXCEPT !.pc = "top", !.ids = rest \ {a}, !.cur = a]]
           /\ broadcasts' = broadcastMessage(log, Msg("auction:ended", a, NoUser, "", 0))

\* the selected auctions are set ended; the legacy server broadcasts auction:ended for
\* each, the current one goes through them one by one
Sweep_Expire(w) ==
  /\ sweep[w].pc = "expire"
  /\ \/ /\ auctions' = SetStatus(auctions, sweep[w].ids, "ended")
        /\ IF server = "legacy"
             THEN /\ broadcasts' = BroadcastEach(broadcasts, "auction:ended", sweep[w].ids)
                  /\ sweep' = [sweep EXCEPT ![w] = NoSweep]
             ELSE NextEnded(w, sweep[w].ids, broadcasts)
        /\ UNCHANGED failures
     \/ /\ StoreFails
        /\ sweep' = [sweep EXCEPT ![w] = NoSweep]
        /\ UNCHANGED <<auctions, broadcasts>>
  /\ UNCHANGED notifications
  /\ SweepFrame

\* the top bid of the current auction is read and its bidder is notified, with an
\* error that ends the run
Sweep_Top_Aborting(w) ==
  /\ sweep[w].pc = "top"
  /\ LET a == sweep[w].cur IN
     \/ /\ BidsOf(a) = {}
        /\ NextEnded(w, sweep[w].ids, broadcasts)
        /\ UNCHANGED <<notifications, failures>>
     \/ \E i \in TopByCreatedAt(a) :
          /\ BidsOf(a) # {}
          /\ NextEnded(w, sweep[w].ids,
                       notifyBroadcast(broadcasts, bids[i].bidderId, "auction_ended", a, bids[i].amount))
          /\ notifications' = notifyPersist(notifications, TRUE, bids[i].bidderId,
                                            "auction_ended", a, bids[i].amount)
          /\ UNCHANGED failures
     \/ /\ StoreFails
        /\ sweep' = [sweep EXCEPT ![w] = NoSweep]
        /\ UNCHANGED <<broadcasts, notifications>>
  /\ UNCHANGED auctions
  /\ SweepFrame

\* the top bid of the current auction is read (latest createdAt) and its bidder is
\* notified (auction_ended); an error is caught and the batch goes on
Sweep_Top(w) ==
  /\ sweep[w].pc = "top"
  /\ LET a == sweep[w].cur IN
     \/ /\ BidsOf(a) = {}
        /\ NextEnded(w, sweep[w].ids, broadcasts)
        /\ UNCHANGED <<notifications, failures>>
     \/ \E i \in TopByCreatedAt(a), ok \in BOOLEAN :
          /\ BidsOf(a) # {}
          /\ NextEnded(w, sweep[w].ids,
                       notifyBroadcast(broadcasts, bids[i].bidderId, "auction_ended", a, bids[i].amount))
          /\ notifications' = notifyPersist(notifications, ok, bids[i].bidderId,
                                            "auction_ended", a, bids[i].amount)
          /\ IF ok THEN UNCHANGED failures ELSE StoreFails
     \/ /\ StoreFails
        /\ NextEnded(w, sweep[w].ids, broadcasts)
        /\ UNCHANGED notifications
  /\ UNCHANGED auctions
  /\ SweepFrame


\* ---- the seller's decision and the counter-offers (current server only)

NegFrame == UNCHANGED <<server, now, bids, sweep, lock>>

\* DecisionSchema: 'accept' | 'reject'
DecisionSchema(d) == d \in {"accept", "reject"}

\* CounterOfferSchema: amount >= 0.01
CounterOfferSchema(amt) == amt >= 1

\* notify(u, nt, ...) twice, each persisted or not: the two bags after both
NotifyTwo(m1, m2) ==
  \E ok1, ok2 \in BOOLEAN :
    LET lost == (IF ok1 THEN 0 ELSE 1) + (IF ok2 THEN 0 ELSE 1) IN
    /\ failures + lost <= MaxFailures
    /\ failures' = failures + lost
    /\ broadcasts' = broadcastMessage(broadcastMessage(broadcasts, m1), m2)
    /\ notifications' = persistRow(persistRow(notifications, ok1, m1), ok2, m2)

\* the locals of a decision request as it arrives
DecideRequest(u, a, d) ==
  [Idle EXCEPT !.kind = "decide", !.userId = u, !.auctionId = a, !.decision = d]

\* the checks of the decision without the test of the status
DecideChecks_NoStatus(q, a) ==
  IF ~DecisionSchema(q.decision) THEN Finish(q, "invalid", 0)
  ELSE IF a.status = "none" THEN Finish(q, "not_found", 0)
  ELSE IF a.sellerId # q.userId THEN Finish(q, "forbidden", 0)
  ELSE [q EXCEPT !.pc = "top", !.auction = a]

\* the checks of the decision on the row that was read
DecideChecks(q, a) ==
  IF ~DecisionSchema(q.decision) THEN Finish(q, "invalid", 0)
  ELSE IF a.status = "none" THEN Finish(q, "not_found", 0)
  ELSE IF a.sellerId # q.userId THEN Finish(q, "forbidden", 0)
  ELSE IF a.status # "ended" THEN Finish(q, "not_ended", 0)
  ELSE [q EXCEPT !.pc = "top", !.auction = a]

\* POST /api/auctions/:id/decision: the auction row is read and checked
Decide_Load(r, u, a, d) ==
  /\ server # "legacy"
  /\ FreeSlot(r)
  /\ Advance(r, DecideChecks(DecideRequest(u, a, d), auctions[a]))
  /\ UNCHANGED <<auctions, counterOffers, responds, broadcasts, notifications, failures>>
  /\ NegFrame

\* 'accept' -> bid_accepted / accepted, 'reject' -> bid_rejected / rejected
WinnerNote(d) == IF d = "accept" THEN "bid_accepted" ELSE "bid_rejected"
Reason(d) == IF d = "accept" THEN "accepted" ELSE "rejected"

\* the top bid is read (greatest amount); with none the reply is 'No bids'; else the
\* winner and the seller are notified, before the auction is closed
Decide_Top(r) ==
  /\ req[r].kind = "decide" /\ req[r].pc = "top"
  /\ LET q == req[r] IN
     IF BidsOf(q.auctionId) = {}
       THEN /\ Advance(r, Finish(q, "no_bids", 0))
            /\ UNCHANGED <<broadcasts, notifications, failures>>
       ELSE \E i \in TopByAmount(q.auctionId) :
              /\ NotifyTwo(Note(bids[i].bidderId, WinnerNote(q.decision), q.auctionId,
                                bids[i].amount, ""),
                           Note(q.auction.sellerId, "auction_closed", q.auctionId,
                                IF q.decision = "accept" THEN bids[i].amount ELSE 0,
                                Reason(q.decision)))
              /\ Advance(r, [q EXCEPT !.pc = "close", !.prevTopBidder = bids[i].bidderId,
                                      !.amount = bids[i].amount])
  /\ UNCHANGED <<auctions, counterOffers, responds>>
  /\ NegFrame

\* { type: 'auction:closed', auctionId, reason }
Closed(a, reason) == [Msg("auction:closed", a, NoUser, "", 0) EXCEPT !.reason = reason]

\* update({ status: 'closed' }).eq('id', id), then the auction:closed broadcast
CloseAuction(r, reason) ==
  \/ /\ auctions' = SetStatus(auctions, {req[r].auctionId}, "closed")
     /\ broadcasts' = broadcastMessage(broadcasts, Closed(req[r].auctionId, reason))
     /\ Advance(r, Finish(req[r], "ok", 0))
     /\ UNCHANGED failures
  \/ /\ StoreFails
     /\ Advance(r, Finish(req[r], "failed", 0))
     /\ UNCHANGED <<auctions, broadcasts>>

\* the auction is marked closed
Decide_Close(r) ==
  /\ req[r].kind = "decide" /\ req[r].pc = "close"
  /\ CloseAuction(r, Reason(req[r].decision))
  /\ UNCHANGED <<counterOffers, responds, notifications>>
  /\ NegFrame

\* counter-offer requests that have passed their checks and not yet returned
CountersInFlight == Cardinality({r \in ReqIds : req[r].kind = "counter" /\ Busy(r)})

\* the checks of a counter-offer on the row that was read: the status is not looked at
CounterChecks(q, a) ==
  IF ~CounterOfferSchema(q.amount) THEN Finish(q, "invalid", 0)
  ELSE IF a.status = "none" THEN Finish(q, "not_found", 0)
  ELSE IF a.sellerId # q.userId THEN Finish(q, "forbidden", 0)
  ELSE [q EXCEPT !.pc = "top", !.auction = a]

\* POST /api/auctions/:id/counter-offers: the auction row is read and checked
Counter_Load(r, u, a, amt) ==
  /\ server # "legacy"
  /\ FreeSlot(r)
  /\ Len(counterOffers) + CountersInFlight < MaxCounters
  /\ Advance(r, CounterChecks([Idle EXCEPT !.kind = "counter", !.userId = u, !.auctionId = a,
                                           !.amount = amt], auctions[a]))
  /\ UNCHANGED <<auctions, counterOffers, responds, broadcasts, notifications, failures>>
  /\ NegFrame

\* the top bid is read (latest createdAt); with none the reply is 'No bids to counter'
Counter_Top(r) ==
  /\ req[r].kind = "counter" /\ req[r].pc = "top"
  /\ IF BidsOf(req[r].auctionId) = {}
       THEN Advance(r, Finish(req[r], "no_bids", 0))
       ELSE \E i \in TopByCreatedAt(req[r].auctionId) :
              Advance(r, [req[r] EXCEPT !.pc = "insert", !.prevTopBidder = bids[i].bidderId])
  /\ UNCHANGED <<auctions, counterOffers, responds, broadcasts, notifications, failures>>
  /\ NegFrame

\* the row inserted into counter_offers
CounterRow(q) ==
  [auctionId |-> q.auctionId, sellerId |-> q.userId, buyerId |-> q.prevTopBidder,
   amount |-> q.amount, status |-> "pending"]

\* the counter-offer is inserted and its buyer is notified, with a notify whose
\* insert error reaches the catch of the handler
Counter_Insert_Throwing(r) ==
  /\ req[r].kind = "counter" /\ req[r].pc = "insert"
  /\ LET q == req[r] IN
     \/ /\ counterOffers' = Append(counterOffers, CounterRow(q))
        /\ broadcasts' = notifyBroadcast(broadcasts, q.prevTopBidder, "counter_offer", q.auctionId, q.amount)
        /\ \E ok \in BOOLEAN :
             /\ notifications' = notifyPersist(notifications, ok, q.prevTopBidder,
                                               "counter_offer", q.auctionId, q.amount)
             /\ IF ok THEN UNCHANGED failures ELSE StoreFails
             /\ Advance(r, Finish(q, IF ok THEN "ok" ELSE "failed", 0))
     \/ /\ StoreFails
        /\ Advance(r, Finish(q, "failed", 0))
        /\ UNCHANGED <<counterOffers, broadcasts, notifications>>
  /\ UNCHANGED <<auctions, responds>>
  /\ NegFrame

\* the counter-offer is inserted and its buyer is notified (counter_offer)
Counter_Insert(r) ==
  /\ req[r].kind = "counter" /\ req[r].pc = "insert"
  /\ LET q == req[r] IN
     \/ /\ counterOffers' = Append(counterOffers, CounterRow(q))
        /\ broadcasts' = notifyBroadcast(broadcasts, q.prevTopBidder, "counter_offer", q.auctionId, q.amount)
        /\ \E ok \in BOOLEAN :
             /\ notifications' = notifyPersist(notifications, ok, q.prevTopBidder,
                                               "counter_offer", q.auctionId, q.amount)
             /\ IF ok THEN UNCHANGED failures ELSE StoreFails
        /\ Advance(r, Finish(q, "ok", 0))
     \/ /\ StoreFails
        /\ Advance(r, Finish(q, "failed", 0))
        /\ UNCHANGED <<counterOffers, broadcasts, notifications>>
  /\ UNCHANGED <<auctions, responds>>
  /\ NegFrame

\* the locals of a response as it arrives
RespondRequest(u, d) == [Idle EXCEPT !.kind = "respond", !.userId = u, !.decision = d]

\* the checks of a response without the test of the caller
RespondChecks_AnyCaller(q, c) ==
  IF ~DecisionSchema(q.decision) THEN Finish(q, "invalid", 0)
  ELSE IF c \notin DOMAIN counterOffers THEN Finish(q, "not_found", 0)
  ELSE [q EXCEPT !.pc = "update", !.counterId = c, !.auctionId = counterOffers[c].auctionId,
                 !.amount = counterOffers[c].amount]

\* the checks of a response on the counter-offer that was read: its status and the
\* status of its auction are not looked at
RespondChecks(q, c) ==
  IF ~DecisionSchema(q.decision) THEN Finish(q, "invalid", 0)
  ELSE IF c \notin DOMAIN counterOffers THEN Finish(q, "not_found", 0)
  ELSE IF counterOffers[c].buyerId # q.userId /\ counterOffers[c].sellerId # q.userId
    THEN Finish(q, "forbidden", 0)
  ELSE [q EXCEPT !.pc = "update", !.counterId = c, !.auctionId = counterOffers[c].auctionId,
                 !.amount = counterOffers[c].amount]

\* POST /api/counter-offers/:counterId/respond: the counter-offer is read and checked
Respond_Load(r, u, c, d) ==
  /\ server # "legacy"
  /\ FreeSlot(r)
  /\ responds < MaxResponds
  /\ responds' = responds + 1
  /\ Advance(r, RespondChecks(RespondRequest(u, d), c))
  /\ UNCHANGED <<auctions, counterOffers, broadcasts, notifications, failures>>
  /\ NegFrame

\* decision === 'accept' ? 'accepted' : 'rejected'
CounterStatus(d) == IF d = "accept" THEN "accepted" ELSE "rejected"

\* the counter-offer's status is written and both parties are notified
\* (counter_accepted / counter_rejected); an accepted one reads the auction next
Respond_Update(r) ==
  /\ req[r].kind = "respond" /\ req[r].pc = "update"
  /\ LET q == req[r]
         co == counterOffers[q.counterId]
         st == CounterStatus(q.decision)
     IN \/ /\ counterOffers' = [counterOffers EXCEPT ![q.counterId].status = st]
           /\ NotifyTwo(Note(co.sellerId, "counter_" \o st, co.auctionId, co.amount, ""),
                        Note(co.buyerId, "counter_" \o st, co.auctionId, co.amount, ""))
           /\ Advance(r, [q EXCEPT !.pc = IF st = "accepted" THEN "auction" ELSE "close"])
        \/ /\ StoreFails
           /\ Advance(r, Finish(q, "failed", 0))
           /\ UNCHANGED <<counterOffers, broadcasts, notifications>>
  /\ UNCHANGED <<auctions, responds>>
  /\ NegFrame

\* accepted: the auction is read; when a row comes back it is closed next, and when
\* none does (the read failed) the reply is ok with the auction left as it is
Respond_Auction(r) ==
  /\ req[r].kind = "respond" /\ req[r].pc = "auction"
  /\ \/ /\ Advance(r, IF auctions[req[r].auctionId].status = "none" THEN Finish(req[r], "ok", 0)
                      ELSE [req[r] EXCEPT !.pc = "close"])
        /\ UNCHANGED failures
     \/ /\ StoreFails
        /\ Advance(r, Finish(req[r], "ok", 0))
  /\ UNCHANGED <<auctions, counterOffers, responds, broadcasts, notifications>>
  /\ NegFrame

\* the parent auction is marked closed
Respond_Close(r) ==
  /\ req[r].kind = "respond" /\ req[r].pc = "close"
  /\ CloseAuction(r, "counter_" \o CounterStatus(req[r].decision))
  /\ UNCHANGED <<counterOffers, responds, notifications>>
  /\ NegFrame


\* ---- the system

\* no request is being handled
Quiet == \A q \in ReqIds : ~Busy(q)

\* requests that arrive while no other request is being handled
PlaceBid_LoadAlone(r, u, a, amt, t) == Quiet /\ PlaceBid_Load(r, u, a, amt, t)
Decide_LoadAlone(r, u, a, d) == Quiet /\ Decide_Load(r, u, a, d)
Counter_LoadAlone(r, u, a, amt) == Quiet /\ Counter_Load(r, u, a, amt)
Respond_LoadAlone(r, u, c, d) == Quiet /\ Respond_Load(r, u, c, d)

\* a decision that arrives while nothing but decisions is being handled
Decide_LoadAmong(r, u, a, d) ==
  /\ \A q \in ReqIds : Busy(q) => req[q].kind = "decide"
  /\ Decide_Load(r, u, a, d)

Create ==
  \E a \in FirstAuction, u \in Sellers, sp \in StartingPrices, inc \in BidIncrements,
     glv \in {now, now + 1}, dur \in Durations : CreateAuction(a, u, sp, inc, glv, dur)

BidSteps ==
  \E r \in ReqIds : PlaceBid_Top(r) \/ PlaceBid_Update(r) \/ PlaceBid_Insert(r)

LockSteps ==
  \/ \E r \in ReqIds : PlaceBid_Lock(r) \/ PlaceBid_Unlock(r)
  \/ \E a \in FirstAuction : LockExpire(a)

SweepSteps ==
  \E w \in SweepIds : Sweep_Promote(w) \/ Sweep_Select(w) \/ Sweep_Expire(w) \/ Sweep_Top(w)

NegSteps ==
  \E r \in ReqIds :
    \/ Decide_Top(r) \/ Decide_Close(r)
    \/ Counter_Top(r) \/ Counter_Insert(r)
    \/ Respond_Update(r) \/ Respond_Auction(r) \/ Respond_Close(r)

Decisions == {"accept", "reject", "maybe"}
CounterIds == 1..MaxCounters

\* the whole system: requests and timer runs overlap freely
Next ==
  \/ Tick
  \/ Create
  \/ \E r \in ReqIds, u \in Users, a \in FirstAuction, amt \in Amounts, t \in 0..MaxTime :
       PlaceBid_Load(r, u, a, amt, t)
  \/ \E r \in ReqIds, u \in Users, a \in FirstAuction, d \in Decisions : Decide_Load(r, u, a, d)
  \/ \E r \in ReqIds, u \in Users, a \in FirstAuction, amt \in Amounts : Counter_Load(r, u, a, amt)
  \/ \E r \in ReqIds, u \in Users, c \in CounterIds, d \in Decisions : Respond_Load(r, u, c, d)
  \/ BidSteps
  \/ LockSteps
  \/ NegSteps
  \/ \E w \in SweepIds : Sweep_Start(w)
  \/ SweepSteps

Spec == Init /\ [][Next]_vars

\* the bid engine alone, without Redis: concurrent bids on a store whose calls may fail
InitBid ==
  /\ server \in Servers \ {"redis"}
  /\ failures = 0
  /\ Fresh

NextBid ==
  \/ Tick
  \/ Create
  \/ \E r \in ReqIds, u \in Users, a \in FirstAuction, amt \in Amounts, t \in 0..MaxTime :
       PlaceBid_Load(r, u, a, amt, t)
  \/ BidSteps

SpecBid == InitBid /\ [][NextBid]_vars

\* the life of an auction: requests one at a time, beside the timer; the amounts bid
\* are an invalid one, a middle one and the greatest
LifeAmounts == {-1, MaxAmount - 2, MaxAmount}

NextLife ==
  \/ Tick
  \/ Create
  \/ \E r \in ReqIds, u \in Users, a \in FirstAuction, amt \in LifeAmounts, t \in 0..MaxTime :
       PlaceBid_LoadAlone(r, u, a, amt, t)
  \/ \E r \in ReqIds, u \in Users, a \in FirstAuction, d \in Decisions : Decide_LoadAlone(r, u, a, d)
  \/ \E r \in ReqIds, u \in Users, a \in FirstAuction, amt \in {0, MaxAmount} :
       Counter_LoadAlone(r, u, a, amt)
  \/ \E r \in ReqIds, u \in Users, c \in CounterIds, d \in Decisions : Respond_LoadAlone(r, u, c, d)
  \/ BidSteps
  \/ NegSteps
  \/ \E w \in SweepIds : Sweep_StartAlone(w)
  \/ SweepSteps

\* a state after a failed creation: the failures the bounds allow have occurred
InitLife ==
  /\ server \in Servers \ {"redis"}
  /\ failures = MaxFailures
  /\ Fresh

SpecLife == InitLife /\ [][NextLife]_vars

\* the timer beside the bids: a run of the sweep may start while an earlier one is
\* still waiting for the store, and store calls may fail
NextSweep ==
  \/ Tick
  \/ Create
  \/ \E r \in ReqIds, u \in Users, a \in FirstAuction, amt \in LifeAmounts, t \in 0..MaxTime :
       PlaceBid_LoadAlone(r, u, a, amt, t)
  \/ BidSteps
  \/ \E w \in SweepIds : Sweep_Start(w)
  \/ SweepSteps

SpecSweep == InitBid /\ [][NextSweep]_vars

DecideSteps ==
  \E r \in ReqIds : Decide_Top(r) \/ Decide_Close(r)

\* the seller's decision beside the bids and the timer: a decision may arrive while
\* an earlier decision is still being handled, and store calls may fail
NextDecide ==
  \/ Tick
  \/ Create
  \/ \E r \in ReqIds, u \in Users, a \in FirstAuction, amt \in LifeAmounts, t \in 0..MaxTime :
       PlaceBid_LoadAlone(r, u, a, amt, t)
  \/ BidSteps
  \/ \E r \in ReqIds, u \in Users, a \in FirstAuction, d \in Decisions :
       Decide_LoadAmong(r, u, a, d)
  \/ DecideSteps
  \/ \E w \in SweepIds : Sweep_StartAlone(w)
  \/ SweepSteps

\* the servers that have the decision route
InitDecide ==
  /\ server \in {"store", "orm"}
  /\ failures = 0
  /\ Fresh

SpecDecide == InitDecide /\ [][NextDecide]_vars

\* ---- properties

CounterSteps ==
  \E r \in ReqIds :
    \/ Counter_Top(r) \/ Counter_Insert(r)
    \/ Respond_Update(r) \/ Respond_Auction(r) \/ Respond_Close(r)

\* the counter-offers beside the bids and the timer: requests one at a time and
\* handled without delay after their now is taken, store calls may fail
NextCounter ==
  \/ Tick
  \/ Create
  \/ \E r \in ReqIds, u \in Users, a \in FirstAuction, amt \in {MaxAmount - 2, MaxAmount} :
       PlaceBid_LoadAlone(r, u, a, amt, now)
  \/ BidSteps
  \/ \E r \in ReqIds, u \in Users, a \in FirstAuction, amt \in {0, MaxAmount} :
       Counter_LoadAlone(r, u, a, amt)
  \/ \E r \in ReqIds, u \in Users, c \in CounterIds, d \in Decisions : Respond_LoadAlone(r, u, c, d)
  \/ CounterSteps
  \/ \E w \in SweepIds : Sweep_StartAlone(w)
  \/ SweepSteps

SpecCounter == InitDecide /\ [][NextCounter]_vars

\* a request that arrives while no other request of its kind is being handled
PlaceBid_LoadSingle(r, u, a, amt, t) ==
  /\ \A q \in ReqIds : Busy(q) => req[q].kind # "placeBid"
  /\ PlaceBid_Load(r, u, a, amt, t)

Decide_LoadSingle(r, u, a, d) ==
  /\ \A q \in ReqIds : Busy(q) => req[q].kind # "decide"
  /\ Decide_Load(r, u, a, d)

\* a bid beside a decision and the timer: a bid request may be in progress while the
\* auction is ended and decided; every store call succeeds
NextClose ==
  \/ Tick
  \/ Create
  \/ \E r \in ReqIds, u \in Users, a \in FirstAuction, amt \in LifeAmounts, t \in 0..MaxTime :
       PlaceBid_LoadSingle(r, u, a, amt, t)
  \/ BidSteps
  \/ \E r \in ReqIds, u \in Users, a \in FirstAuction, d \in Decisions :
       Decide_LoadSingle(r, u, a, d)
  \/ DecideSteps
  \/ \E w \in SweepIds : Sweep_StartAlone(w)
  \/ SweepSteps

SpecClose == InitLife /\ [][NextClose]_vars

\* every operation that notifies, one request at a time and handled without delay,
\* beside the timer; store calls may fail
NextNotify ==
  \/ Tick
  \/ Create
  \/ \E r \in ReqIds, u \in Users, a \in FirstAuction, amt \in {MaxAmount - 2, MaxAmount} :
       PlaceBid_LoadAlone(r, u, a, amt, now)
  \/ BidSteps
  \/ \E r \in ReqIds, u \in Users, a \in FirstAuction, d \in {"accept", "reject"} :
       Decide_LoadAlone(r, u, a, d)
  \/ \E r \in ReqIds, u \in Users, a \in FirstAuction : Counter_LoadAlone(r, u, a, MaxAmount)
  \/ \E r \in ReqIds, u \in Users, c \in CounterIds, d \in {"accept", "reject"} :
       Respond_LoadAlone(r, u, c, d)
  \/ NegSteps
  \/ \E w \in SweepIds : Sweep_StartAlone(w)
  \/ SweepSteps

\* the store path of the current server
InitStore ==
  /\ server = "store"
  /\ failures = 0
  /\ Fresh

SpecNotify == InitStore /\ [][NextNotify]_vars

\* creation alone beside the timer: goLiveAt before, at and after the creation time,
\* durations from the invalid 0 to two ticks
CreateAny ==
  \E a \in FirstAuction, u \in Sellers, sp \in StartingPrices, inc \in BidIncrements,
     glv \in {now - 1, now, now + 1}, dur \in 0..2 : CreateAuction(a, u, sp, inc, glv, dur)

NextCreate ==
  \/ Tick
  \/ CreateAny
  \/ \E w \in SweepIds : Sweep_StartAlone(w)
  \/ SweepSteps

SpecCreate == Init /\ [][NextCreate]_vars

\* the timer alone after the creations, on the servers whose sweep promotes: runs may
\* overlap and store calls may fail
InitTimer ==
  /\ server \in Servers \ {"legacy"}
  /\ failures = 0
  /\ Fresh

NextTimer ==
  \/ Tick
  \/ CreateAny
  \/ \E w \in SweepIds : Sweep_Start(w)
  \/ SweepSteps

\* the timer keeps firing and every run that has started goes on; the store failures
\* are bounded, so store calls succeed in the end
FairTimer ==
  /\ WF_vars(\E w \in SweepIds : Sweep_Start(w))
  /\ \A w \in SweepIds :
       WF_vars(Sweep_Promote(w) \/ Sweep_Select(w) \/ Sweep_Expire(w) \/ Sweep_Top(w))

SpecTimer == InitTimer /\ [][NextTimer]_vars /\ FairTimer

\* two auctions beside the timer: bids one at a time and handled without delay, one
\* run of the sweep at a time, store calls may fail
CreateBatch ==
  \E a \in AuctionIds, u \in Sellers, sp \in StartingPrices, inc \in BidIncrements,
     glv \in {now, now + 1}, dur \in Durations : CreateAuction(a, u, sp, inc, glv, dur)

NextBatch ==
  \/ Tick
  \/ CreateBatch
  \/ \E r \in ReqIds, u \in Users, a \in AuctionIds : PlaceBid_LoadAlone(r, u, a, MaxAmount - 2, now)
  \/ BidSteps
  \/ \E w \in SweepIds : Sweep_StartAlone(w)
  \/ SweepSteps

SpecBatch == InitTimer /\ [][NextBatch]_vars

\* the ORM path with and without Redis: bids overlap, the key may expire at any
\* moment, the store may fail; a handler that has started goes on to its end
InitLock ==
  /\ server \in {"orm", "redis"}
  /\ failures = 0
  /\ Fresh

NextLock ==
  \/ Tick
  \/ Create
  \/ \E r \in ReqIds, u \in Users, a \in FirstAuction, amt \in {MaxAmount - 2, MaxAmount} :
       PlaceBid_Load(r, u, a, amt, now)
  \/ BidSteps
  \/ LockSteps

FairLock ==
  \A r \in ReqIds :
    WF_vars(PlaceBid_Top(r) \/ PlaceBid_Lock(r) \/ PlaceBid_Update(r) \/ PlaceBid_Insert(r)
              \/ PlaceBid_Unlock(r))

SpecLock == InitLock /\ [][NextLock]_vars /\ FairLock

\* the same, with every handler and every run of the sweep that has started going on
\* to its end (an awaited store call returns)
FairClose ==
  /\ \A r \in ReqIds :
       WF_vars(PlaceBid_Top(r) \/ PlaceBid_Update(r) \/ PlaceBid_Insert(r)
                 \/ Decide_Top(r) \/ Decide_Close(r))
  /\ \A w \in SweepIds :
       WF_vars(Sweep_Promote(w) \/ Sweep_Select(w) \/ Sweep_Expire(w) \/ Sweep_Top(w))

SpecCloseFair == InitLife /\ [][NextClose]_vars /\ FairClose

\* the auctions that exist
Created == {a \in AuctionIds : auctions[a].status # "none"}

\* the server of part_000 (store path or ORM path)
Current == server # "legacy"

\* C1: no lost update.  On the current server, once the requests have finished, no
\* store call having failed, an auction with two bid rows has the greater of the two
\* amounts as its currentPrice
C1_NoLostUpdate ==
  \A a \in Created :
    (Current /\ Quiet /\ failures = 0 /\ Cardinality(BidsOf(a)) = 2)
      => \A i \in BidsOf(a) : bids[i].amount <= auctions[a].currentPrice

\* C2: currentPrice is non-decreasing: no step of the current server lowers the
\* currentPrice of an auction
C2_PriceNonDecreasing ==
  [][\A a \in Created :
       Current => auctions'[a].currentPrice >= auctions[a].currentPrice]_vars

\* C3: a bid that is committed is at least the currentPrice stored at the moment of
\* its price write plus bidIncrement, not merely the price its request read
C3_AmountAboveCommittedPrice ==
  [][\A r \in ReqIds :
       (PlaceBid_Update(r) /\ req'[r].pc = "insert")
         => req[r].amount >= MinBid(auctions[req[r].auctionId])]_vars

\* the position in scheduled -> live -> ended -> closed
Rank(st) ==
  CASE st = "scheduled" -> 1 [] st = "live" -> 2 [] st = "ended" -> 3 [] st = "closed" -> 4
    [] OTHER -> 0

\* C4: the status of an auction only moves to the next status of
\* scheduled -> live -> ended -> closed: never backward, never past one
C4_StatusOrder ==
  [][\A a \in Created :
       auctions'[a].status # auctions[a].status
         => Rank(auctions'[a].status) = Rank(auctions[a].status) + 1]_vars

\* C5: a bid request whose now is after endsAt is refused when the row is read,
\* whatever the stored status (with a valid amount from a bidder other than the seller:
\* 'Auction is not active'); so no request past its checks and no bid row has a now
\* after the endsAt of its auction
C5_LateBidRejected ==
  /\ \A u \in Users, a \in Created, amt \in Amounts, t \in Times :
       t > auctions[a].endsAt
         => LET res == Checks(BidRequest(u, a, amt, t), auctions[a])
            IN /\ res.pc = "done" /\ res.result # "success"
               /\ (PlaceBidSchema(amt) /\ u # auctions[a].sellerId) => res.result = "not_active"
  /\ \A r \in ReqIds :
       (req[r].kind = "placeBid" /\ Busy(r)) => req[r].now <= auctions[req[r].auctionId].endsAt
  /\ \A i \in DOMAIN bids : bids[i].createdAt <= auctions[bids[i].auctionId].endsAt

\* C5, its case: a bid was just refused as not active on an auction still stored as
\* live whose endsAt has passed
C5_Witness ==
  /\ reply.kind = "placeBid" /\ reply.result = "not_active"
  /\ \E a \in Created : auctions[a].status = "live" /\ now > auctions[a].endsAt

\* C6: no bid row has the seller of its auction as its bidder
C6_NoSellerBid ==
  \A i \in DOMAIN bids : bids[i].bidderId # auctions[bids[i].auctionId].sellerId

\* C7: the commit is all or nothing: when no request is in progress, a currentPrice
\* other than the startingPrice is the amount of a bid row of the auction
C7_AtomicCommit ==
  \A a \in Created :
    (Quiet /\ auctions[a].currentPrice # auctions[a].startingPrice)
      => \E i \in BidsOf(a) : bids[i].amount = auctions[a].currentPrice

\* C8: the current server answers a bid request with success only when the stored
\* currentPrice is the amount it wrote: a request whose write was overtaken is not
\* reported as success
C8_SuccessRevalidated ==
  [][\A r \in ReqIds :
       (/\ Current
        /\ req[r].kind = "placeBid" /\ Busy(r) /\ ~Busy(r)' /\ reply'.result = "success")
         => auctions'[req[r].auctionId].currentPrice = req[r].amount]_vars

\* C9: on a live auction, at a time not after endsAt, a valid amount from a bidder other
\* than the seller that is below currentPrice + bidIncrement is refused with that
\* minimum echoed and nothing else changes; an amount not below it passes the checks
C9_MinimumEchoed ==
  [][\A r \in ReqIds, u \in Users, a \in Created, amt \in Amounts, t \in 0..MaxTime :
       (/\ PlaceBid_Load(r, u, a, amt, t)
        /\ PlaceBidSchema(amt) /\ u # auctions[a].sellerId /\ ~NotActive(auctions[a], t))
         => IF amt < MinBid(auctions[a])
              THEN /\ reply'.result = "min_bid" /\ reply'.minBid = MinBid(auctions[a])
                   /\ UNCHANGED <<auctions, bids, broadcasts, notifications>>
              ELSE Busy(r)' /\ req'[r].amount = amt]_vars

\* C10: the currentPrice of an auction is never below its startingPrice
C10_PriceAboveStart ==
  \A a \in Created : auctions[a].currentPrice >= auctions[a].startingPrice

\* C10, its case: bids have moved the price, and a later write has lowered it again
C10_Witness ==
  \E a \in Created : \E i \in BidsOf(a) :
    /\ auctions[a].currentPrice > auctions[a].startingPrice
    /\ bids[i].amount > auctions[a].currentPrice

\* the sweep runs in progress
Running == {w \in SweepIds : sweep[w].pc # "idle"}

\* C11: the sweep of the current server is single-flight: at most one run of the
\* sweep is in progress
C11_SingleFlight == Current => Cardinality(Running) <= 1

\* how many messages of the log satisfy ntype = nt and auctionId = a
Count(log, type, nt, a) ==
  LET S == {m \in BagToSet(log) : m.type = type /\ m.ntype = nt /\ m.auctionId = a}
  IN BagCardinality([m \in S |-> CopiesIn(m, log)])

\* C12: over the life of an auction auction:ended is broadcast at most once and
\* auction_ended is notified at most once, and exactly once each time the auction is
\* found ended with no run of the sweep in progress
C12_EndedOnce ==
  \A a \in Created :
    Current =>
    /\ Count(broadcasts, "auction:ended", "", a) <= 1
    /\ Count(broadcasts, "notification", "auction_ended", a) <= 1
    /\ (auctions[a].status = "ended" /\ Running = {})
         => Count(broadcasts, "auction:ended", "", a) = 1

\* C13: a step of a run of the sweep taken while nothing is eligible at the run's now
\* (no scheduled auction with goLiveAt <= now, no live one with endsAt < now) is a
\* select that finds nothing: it writes nothing, broadcasts nothing, notifies nothing
\* and does not lead to a write
C13_SweepIdempotent ==
  [][\A w \in SweepIds :
       LET t == IF sweep[w].pc = "idle" THEN now ELSE sweep[w].now IN
       (/\ sweep'[w] # sweep[w]
        /\ sweep[w].pc \in {"idle", "select"}
        /\ ToLive(t) = {} /\ Expired(t) = {})
         => /\ UNCHANGED <<auctions, broadcasts, notifications>>
            /\ sweep'[w].pc \in {"idle", "select"}]_vars

\* C13, its case: the auction has been ended by an earlier run, and a later run has
\* found nothing to promote and is about to select the expired auctions
C13_Witness ==
  \E w \in SweepIds :
    /\ sweep[w].pc = "select"
    /\ ToLive(sweep[w].now) = {} /\ Expired(sweep[w].now) = {}
    /\ \E a \in Created : auctions[a].status = "ended"

\* the top bid of an auction: greatest amount, ties broken by latest createdAt
TopBid(a) ==
  {i \in TopByAmount(a) : \A j \in TopByAmount(a) : bids[j].createdAt <= bids[i].createdAt}

\* no two bids of the auction have the same createdAt
DistinctTimes(a) ==
  \A i, j \in BidsOf(a) : bids[i].createdAt = bids[j].createdAt => i = j

\* C14: the auction_ended notification of a sweep goes to the bidder of the top bid
\* (greatest amount); stated for auctions whose bids have distinct createdAt
C14_EndedToTopBidder ==
  [][\A m \in BagToSet(broadcasts') :
       (/\ m.ntype = "auction_ended"
        /\ CopiesIn(m, broadcasts') > CopiesIn(m, broadcasts)
        /\ DistinctTimes(m.auctionId))
         => \E i \in TopBid(m.auctionId) : bids[i].bidderId = m.userId]_vars

\* the counter-offers inserted or changed by the step
Touched ==
  {c \in DOMAIN counterOffers' : c \notin DOMAIN counterOffers \/ counterOffers'[c] # counterOffers[c]}

\* C15: a counter-offer that is created is pending and against the bidder of the bid
\* with the greatest amount of its auction, one counter_offer notification goes to
\* that bidder, and the auction rows are unchanged; stated for auctions whose bids
\* have distinct createdAt
C15_CounterToTopBidder ==
  [][\A c \in DOMAIN counterOffers' :
       (c \notin DOMAIN counterOffers /\ DistinctTimes(counterOffers'[c].auctionId))
         => LET co == counterOffers'[c] IN
            /\ co.status = "pending"
            /\ \E i \in TopBid(co.auctionId) : bids[i].bidderId = co.buyerId
            /\ broadcasts' = notifyBroadcast(broadcasts, co.buyerId, "counter_offer",
                                             co.auctionId, co.amount)
            /\ auctions' = auctions]_vars

\* C19: a counter-offer is inserted or changed only while its auction is ended, and a
\* counter-offer request or a response writes the auction rows or answers ok only
\* while its auction is ended
C19_NegotiationOnlyEnded ==
  [][/\ \A c \in Touched : auctions[counterOffers'[c].auctionId].status = "ended"
     /\ \A r \in ReqIds :
          (/\ req[r].kind \in {"counter", "respond"}
           /\ req'[r] # req[r]
           /\ (auctions' # auctions \/ reply'.result = "ok"))
            => auctions[req[r].auctionId].status = "ended"]_vars

\* C20: a counter-offer that is accepted or rejected never changes again
C20_OneOutcome ==
  [][\A c \in DOMAIN counterOffers :
       counterOffers[c].status # "pending" => counterOffers'[c] = counterOffers[c]]_vars

\* C16: for every auction at most one decision ever succeeds: auction:closed is
\* broadcast at most once for it
C16_DecideOnce ==
  \A a \in Created : Count(broadcasts, "auction:closed", "", a) <= 1

\* the bidders of the bids with the greatest amount
GreatestBidders(a) ==
  {bids[i].bidderId : i \in {k \in BidsOf(a) : \A j \in BidsOf(a) : bids[j].amount <= bids[k].amount}}

\* the greatest amount bid
GreatestAmount(a) == CHOOSE x \in {bids[i].amount : i \in BidsOf(a)} :
                       \A j \in BidsOf(a) : bids[j].amount <= x

\* C17: a decision that gets as far as its notifications sends bid_accepted (accept)
\* or bid_rejected (reject) to the bidder of the greatest amount and auction_closed
\* with reason accepted or rejected to the seller; a decision that succeeds leaves the
\* auction closed and broadcasts one auction:closed with the matching reason
C17_DecideOutcome ==
  [][\A r \in ReqIds :
       LET q == req[r]
           a == q.auctionId
           acc == q.decision = "accept"
       IN
       /\ (q.kind = "decide" /\ q.pc = "top" /\ req'[r].pc = "close")
            => \E u \in GreatestBidders(a) :
                 broadcasts' = broadcasts
                   (+) SetToBag({Note(u, IF acc THEN "bid_accepted" ELSE "bid_rejected", a,
                                      GreatestAmount(a), "")})
                   (+) SetToBag({Note(auctions[a].sellerId, "auction_closed", a,
                                      IF acc THEN GreatestAmount(a) ELSE 0,
                                      IF acc THEN "accepted" ELSE "rejected")})
       /\ (q.kind = "decide" /\ q.pc = "close" /\ req'[r] # q /\ reply'.result = "ok")
            => /\ auctions'[a].status = "closed"
               /\ broadcasts' = broadcasts
                    (+) SetToBag({Closed(a, IF acc THEN "accepted" ELSE "rejected")})]_vars

\* C17, its case: an accepted decision on an auction with two bids has answered ok
C17_Witness ==
  /\ reply.kind = "decide" /\ reply.result = "ok"
  /\ \E a \in Created :
       /\ Cardinality(BidsOf(a)) = 2
       /\ auctions[a].status = "closed"
       /\ CopiesIn(Closed(a, "accepted"), broadcasts) = 1

\* the stores and the log
Effects == <<auctions, bids, counterOffers, broadcasts, notifications>>

\* C18: a valid decision by a caller who is not the seller is answered forbidden, one
\* by the seller on an auction that is scheduled, live or closed is answered not ended,
\* one on an ended auction without bids is answered no bids, and a decision answered
\* one of the three leaves the stores and the log unchanged
C18_DecideRefused ==
  /\ [](\A u \in Users, a \in Created, d \in {"accept", "reject"} :
          LET q == DecideChecks(DecideRequest(u, a, d), auctions[a]) IN
          /\ u # auctions[a].sellerId => ReplyOf(q).result = "forbidden"
          /\ (u = auctions[a].sellerId /\ auctions[a].status \in {"scheduled", "live", "closed"})
               => ReplyOf(q).result = "not_ended")
  /\ [][/\ \A r \in ReqIds :
             (/\ req[r].kind = "decide" /\ req[r].pc = "top" /\ req'[r] # req[r]
              /\ BidsOf(req[r].auctionId) = {})
               => reply'.kind = "decide" /\ reply'.result = "no_bids"
        /\ (reply'.kind = "decide" /\ reply'.result \in {"forbidden", "not_ended", "no_bids"})
             => UNCHANGED Effects]_vars

\* C18, its case: a decision on an auction that is already closed has been refused
C18_Witness ==
  /\ reply.kind = "decide" /\ reply.result = "not_ended"
  /\ \E a \in Created : auctions[a].status = "closed"

\* C21: a response on an ended auction that answers ok leaves the auction closed, with an
\* auction:closed broadcast of reason counter_accepted or counter_rejected in the log;
\* the step that writes the counter-offer's status sends counter_<status> to the
\* seller and to the buyer; and no step of a response changes currentPrice or the bids
C21_RespondCloses ==
  [][\A r \in ReqIds :
       LET q == req[r]
           a == q.auctionId
           st == IF q.decision = "accept" THEN "accepted" ELSE "rejected"
       IN
       (q.kind = "respond" /\ req'[r] # q /\ auctions[a].status = "ended")
         => /\ reply'.result = "ok"
                 => /\ auctions'[a].status = "closed"
                    /\ CopiesIn(Closed(a, "counter_" \o st), broadcasts') >= 1
            /\ (q.pc = "update" /\ counterOffers' # counterOffers)
                 => LET co == counterOffers[q.counterId] IN
                    broadcasts' = broadcasts
                      (+) SetToBag({Note(co.sellerId, "counter_" \o st, a, co.amount, "")})
                      (+) SetToBag({Note(co.buyerId, "counter_" \o st, a, co.amount, "")})
            /\ auctions'[a].currentPrice = auctions[a].currentPrice
            /\ bids' = bids]_vars

\* C22: once an auction is closed its status and its currentPrice never change and no
\* bid row is added for it
C22_ClosedForever ==
  [][\A a \in Created :
       auctions[a].status = "closed"
         => /\ auctions'[a].status = "closed"
            /\ auctions'[a].currentPrice = auctions[a].currentPrice
            /\ \A i \in DOMAIN bids' : i \notin DOMAIN bids => bids'[i].auctionId # a]_vars

\* C23: a valid response to a counter-offer by a caller who is neither its buyer nor
\* its seller is answered forbidden, and a response answered forbidden leaves the
\* counter-offers, the auctions, the bids and the log unchanged
C23_RespondForbidden ==
  /\ [](\A u \in Users, c \in DOMAIN counterOffers, d \in {"accept", "reject"} :
          (u # counterOffers[c].buyerId /\ u # counterOffers[c].sellerId)
            => ReplyOf(RespondChecks(RespondRequest(u, d), c)).result = "forbidden")
  /\ [][(reply'.kind = "respond" /\ reply'.result = "forbidden") => UNCHANGED Effects]_vars

\* C23, its case: a response to a pending counter-offer has been answered forbidden
C23_Witness ==
  /\ reply.kind = "respond" /\ reply.result = "forbidden"
  /\ \E c \in DOMAIN counterOffers : counterOffers[c].status = "pending"

\* how many notifications the log holds
NoteCount(log) ==
  LET S == {m \in BagToSet(log) : m.type = "notification"}
  IN BagCardinality([m \in S |-> CopiesIn(m, log)])

\* the step broadcasts more notifications than it stores rows
Lost ==
  NoteCount(broadcasts') - NoteCount(broadcasts)
    > BagCardinality(notifications') - BagCardinality(notifications)

\* C24: a step in which a notification is broadcast and its row is not stored has the
\* outcome of the step in which it is stored: no failure is answered, the auctions are
\* untouched, a bid request has its row inserted and answers success, a decision goes on
\* to close, a counter-offer is inserted and answers ok, a response has written the
\* status and goes on, and a run of the sweep goes on with its batch
C24_NotifyFailureIgnored ==
  [][Lost =>
       /\ reply'.result # "failed"
       /\ auctions' = auctions
       /\ \A r \in ReqIds :
            LET q == req[r] IN
            req'[r] # q =>
              /\ q.kind = "placeBid"
                   => /\ reply'.result = "success"
                      /\ bids' = IF q.pc = "insert" THEN Append(bids, BidRow(q)) ELSE bids
              /\ q.kind = "decide" => req'[r].pc = "close" /\ bids' = bids
              /\ q.kind = "counter"
                   => /\ reply'.result = "ok"
                      /\ counterOffers' = Append(counterOffers, CounterRow(q))
              /\ q.kind = "respond"
                   => /\ counterOffers'[q.counterId].status = CounterStatus(q.decision)
                      /\ req'[r].pc \in {"auction", "close"}
       /\ \A w \in SweepIds :
            sweep'[w] # sweep[w]
              => sweep'[w].pc \in {"idle", "top"} /\ bids' = bids /\ counterOffers' = counterOffers]_vars

\* C24, its case: a counter-offer has answered ok although the row of its
\* counter_offer notification was not stored
C24_Witness ==
  /\ reply.kind = "counter" /\ reply.result = "ok"
  /\ \E c \in DOMAIN counterOffers :
       LET m == Msg("notification", counterOffers[c].auctionId, counterOffers[c].buyerId,
                    "counter_offer", counterOffers[c].amount)
       IN CopiesIn(m, broadcasts) = 1 /\ CopiesIn(m, notifications) = 0

\* C25: an auction that is created is stored live when its goLiveAt is at or before
\* the creation time and scheduled when it is later, with currentPrice = startingPrice
\* and endsAt later than goLiveAt by a valid duration
C25_CreatedStatus ==
  [][\A a \in AuctionIds :
       (auctions[a].status = "none" /\ auctions'[a].status # "none")
         => LET x == auctions'[a] IN
            /\ x.goLiveAt <= now => x.status = "live"
            /\ x.goLiveAt > now => x.status = "scheduled"
            /\ x.currentPrice = x.startingPrice
            /\ x.endsAt > x.goLiveAt
            /\ x.endsAt - x.goLiveAt \in 1..10080]_vars

\* C25, its case: an auction created with a goLiveAt already past is live, and no
\* sweep has promoted it
C25_Witness ==
  \E a \in Created :
    /\ auctions[a].status = "live"
    /\ auctions[a].goLiveAt < 0
    /\ Count(broadcasts, "auction:live", "", a) = 0

\* the step is taken by a request of one of the kinds, or by a run of the sweep
ActsAs(kinds) == \E r \in ReqIds : req[r].kind \in kinds /\ req'[r] # req[r]
SweepActs == \E w \in SweepIds : sweep'[w] # sweep[w]

\* C26: a step of a bid request leaves every status as it is; a step of the sweep, of
\* a decision, of a counter-offer request or of a response leaves every currentPrice
\* and the bids as they are; the sweep changes a status only from scheduled to live or
\* from live to ended, and the negotiation requests only from ended to closed
C26_FieldOwners ==
  [][\A a \in Created :
       LET old == auctions[a].status
           new == auctions'[a].status
       IN
       /\ ActsAs({"placeBid"}) => new = old
       /\ (SweepActs \/ ActsAs({"decide", "counter", "respond"}))
            => auctions'[a].currentPrice = auctions[a].currentPrice /\ bids' = bids
       /\ (SweepActs /\ new # old)
            => (old = "scheduled" /\ new = "live") \/ (old = "live" /\ new = "ended")
       /\ (ActsAs({"decide", "counter", "respond"}) /\ new # old)
            => old = "ended" /\ new = "closed"]_vars

RunStep(w) == sweep'[w] # sweep[w] /\ failures' = failures

\* one more broadcast of the type for the auction
OneMore(type, a) ==
  CopiesIn(Msg(type, a, NoUser, "", 0), broadcasts')
    = CopiesIn(Msg(type, a, NoUser, "", 0), broadcasts) + 1

C29_StrictExpiry ==
  /\ [](\A a \in Created, u \in Users, amt \in Amounts :
          auctions[a].status = "live"
            => Checks(BidRequest(u, a, amt, auctions[a].endsAt), auctions[a]).result # "not_active")
  /\ [][\A w \in SweepIds :
          RunStep(w)
            => /\ (sweep[w].pc = "select" \/ (sweep[w].pc = "idle" /\ ~Current))
                    => LET t == IF sweep[w].pc = "idle" THEN now ELSE sweep[w].now
                           over == {a \in AuctionIds :
                                      auctions[a].status = "live" /\ auctions[a].endsAt < t}
                       IN /\ IF over = {} THEN sweep'[w].pc = "idle"
                             ELSE sweep'[w].pc = "expire" /\ sweep'[w].ids = over
                          /\ auctions' = auctions
               /\ \A a \in AuctionIds :
                    (auctions'[a].status = "ended" /\ auctions[a].status # "ended")
                      => auctions[a].endsAt < sweep[w].now]_vars

\* C29, its case: a run whose now is the endsAt of a live auction is about to select
C29_Witness ==
  \E w \in SweepIds, a \in Created :
    /\ sweep[w].pc = "select"
    /\ auctions[a].status = "live"
    /\ auctions[a].endsAt = sweep[w].now

\* a store call fails in the step
Fails == failures' > failures

\* C30: on the current server a failure while the scheduled auctions are selected or
\* promoted leaves the run at the selection of the expired ones, with the same now; a
\* failure of the top-bid lookup or of the notification for one ended auction leaves
\* the run at the next auction of the batch, with auction:ended broadcast for it; and a
\* failure that ends a run leaves its slot free for the next firing of the timer
C30_FailureIsolated ==
  [][\A w \in SweepIds :
       (Current /\ Fails /\ sweep'[w] # sweep[w])
         => /\ sweep[w].pc = "idle" => sweep'[w].pc = "select" /\ sweep'[w].now = now
            /\ sweep[w].pc = "promote"
                 => sweep'[w].pc = "select" /\ sweep'[w].now = sweep[w].now
            /\ (sweep[w].pc = "top" /\ sweep[w].ids # {})
                 => /\ sweep'[w].pc = "top"
                    /\ sweep'[w].cur \in sweep[w].ids
                    /\ sweep'[w].ids = sweep[w].ids \ {sweep'[w].cur}
                    /\ OneMore("auction:ended", sweep'[w].cur)
            /\ (sweep[w].pc \in {"select", "expire"} \/ (sweep[w].pc = "top" /\ sweep[w].ids = {}))
                 => sweep'[w] = NoSweep]_vars

\* C30, its case: in a batch of two ended auctions with bids the lookup for the first
\* failed, no auction_ended went out for it, and the run is at the second, with its
\* auction:ended broadcast
C30_Witness ==
  \E w \in SweepIds, a, b \in Created :
    /\ a # b
    /\ sweep[w].pc = "top" /\ sweep[w].cur = b /\ sweep[w].ids = {}
    /\ auctions[a].status = "ended" /\ auctions[b].status = "ended"
    /\ BidsOf(a) # {}
    /\ failures = MaxFailures
    /\ Count(broadcasts, "auction:ended", "", a) = 1
    /\ Count(broadcasts, "auction:ended", "", b) = 1
    /\ Count(broadcasts, "notification", "auction_ended", a) = 0
    /\ Cardinality(DOMAIN bids) = BagCardinality(notifications)

\* request r returns in the step
Exits(r) == Busy(r) /\ req'[r].pc = "done"

\* C31: a bid that reaches the lock goes on to the commit with its next step, whatever
\* the state of the key, and every bid that passed its checks returns; a request that
\* set the key leaves its commit section only through the del of its finally, after a
\* failed store write as well, and the del removes the key unless the del itself
\* fails, which is ignored
C31_LockNeverBlocks ==
  /\ [][\A r \in ReqIds :
          /\ (req[r].pc = "lock" /\ req'[r] # req[r]) => req'[r].pc = "update"
          /\ (req[r].locked /\ Exits(r))
               => /\ req[r].pc = "unlock"
                  /\ lock'[req[r].auctionId] \in {NoUser, lock[req[r].auctionId]}
          /\ (req[r].locked /\ req[r].pc \in {"update", "insert"} /\ req'[r] # req[r])
               => req'[r].locked /\ req'[r].pc \in {"insert", "unlock"}]_vars
  /\ \A r \in ReqIds : (req[r].kind = "placeBid" /\ Busy(r)) ~> ~Busy(r)

\* C31, its case: a request is writing without the key while another holds it, and
\* the holder's store write has failed and it is at its del
C31_Witness ==
  \E r, q \in ReqIds :
    /\ server = "redis"
    /\ req[r].pc = "unlock" /\ req[r].locked /\ req[r].result = "failed"
    /\ req[q].pc \in {"update", "insert"} /\ ~req[q].locked
    /\ lock[req[q].auctionId] = req[r].userId

\* C31 as it is stated: once a request that set the key has returned, the key is gone
C31_Released ==
  [][\A r \in ReqIds :
       (req[r].locked /\ Exits(r)) => lock'[req[r].auctionId] = NoUser]_vars

\* C40: a request deletes the key lock:auction:<id> only while the key holds the value
\* this request set; it never removes the key set by a different user's request
C40_ReleasesOwnLock ==
  [][\A r \in ReqIds :
       (req[r].pc = "unlock" /\ Exits(r) /\ lock'[req[r].auctionId] # lock[req[r].auctionId])
         => lock[req[r].auctionId] = req[r].userId]_vars

\* the bid row inserted by the step
Committed == bids'[Len(bids')]

\* how many outbid notifications about auction a the step broadcasts, and whether one
\* of them goes to u
Outbids(a) ==
  Count(broadcasts', "notification", "outbid", a) - Count(broadcasts, "notification", "outbid", a)
OutbidTo(u, a) ==
  LET m == Msg("notification", a, u, "outbid", Committed.amount)
  IN CopiesIn(m, broadcasts') = CopiesIn(m, broadcasts) + 1

\* C32: on the current server, without the Redis lock, the step that inserts a bid row
\* sends one outbid notification, to a bidder of the greatest amount among the rows
\* already there, when the new bidder is not such a bidder, and sends none when there
\* is no row or when the new bidder alone holds the greatest amount
C32_OutbidPreviousTop ==
  [][(Current /\ Len(bids') = Len(bids) + 1)
       => LET a == Committed.auctionId
              prev == GreatestBidders(a)
          IN /\ (prev = {} \/ prev = {Committed.bidderId}) => Outbids(a) = 0
             /\ (prev # {} /\ Committed.bidderId \notin prev)
                  => Outbids(a) = 1 /\ \E u \in prev : OutbidTo(u, a)]_vars

\* the notifications broadcast by the step, and whether m is one of them
Notes == NoteCount(broadcasts') - NoteCount(broadcasts)
Sent(m) == CopiesIn(m, broadcasts') = CopiesIn(m, broadcasts) + 1

\* C33: every call of notify broadcasts one notification carrying its userId and
\* type, whether or not its row is then stored: a bid that succeeds on the current
\* server sends new_bid to the seller, and outbid to the previous top bidder when
\* there is one other than the bidder, and nothing else; a counter-offer that is
\* inserted sends one counter_offer to its buyer; a decision that has found the top bid
\* and a response that has written its status send two; and no row is stored in a
\* step without its broadcast in the same step
C33_NotifyBroadcasts ==
  [][/\ \A r \in ReqIds :
          LET q == req[r] IN
          /\ (Current /\ q.kind = "placeBid" /\ Exits(r) /\ reply'.result = "success")
               => /\ Sent(Msg("notification", q.auctionId, q.auction.sellerId, "new_bid", q.amount))
                  /\ Outbid(q)
                       => Sent(Msg("notification", q.auctionId, q.prevTopBidder, "outbid", q.amount))
                  /\ Notes = IF Outbid(q) THEN 2 ELSE 1
          /\ (q.kind = "counter" /\ Exits(r) /\ reply'.result = "ok")
               => /\ Sent(Msg("notification", q.auctionId, q.prevTopBidder, "counter_offer", q.amount))
                  /\ Notes = 1
          /\ (q.kind = "decide" /\ q.pc = "top" /\ req'[r].pc = "close") => Notes = 2
          /\ (q.kind = "respond" /\ q.pc = "update" /\ req'[r].pc \in {"auction", "close"})
               => Notes = 2
     /\ \A m \in BagToSet(notifications') :
          CopiesIn(m, notifications') > CopiesIn(m, notifications) => Sent(m)]_vars

\* C33, its case: a bid has answered success, its new_bid notification was broadcast
\* and the row of that notification was not stored
C33_Witness ==
  /\ reply.kind = "placeBid" /\ reply.result = "success"
  /\ \E i \in DOMAIN bids :
       LET m == Msg("notification", bids[i].auctionId, auctions[bids[i].auctionId].sellerId,
                    "new_bid", bids[i].amount)
       IN CopiesIn(m, broadcasts) = 1 /\ CopiesIn(m, notifications) = 0

\* C34: on the current server, whenever no request is being handled, the currentPrice
\* of an auction is the greatest amount among its bid rows when it has any and its
\* startingPrice when it has none
C34_PriceIsTopBid ==
  \A a \in Created :
    (Current /\ Quiet)
      => auctions[a].currentPrice =
           IF BidsOf(a) = {} THEN auctions[a].startingPrice ELSE GreatestAmount(a)

\* C35: on the current server no step inserts a bid row for an auction, or changes its
\* currentPrice, while its stored status is ended
C35_NoCommitAfterEnd ==
  [][\A a \in Created :
       (Current /\ auctions[a].status = "ended")
         => /\ auctions'[a].currentPrice = auctions[a].currentPrice
            /\ \A i \in DOMAIN bids' : bids'[i].auctionId = a => i \in DOMAIN bids]_vars

\* C36: on the current server, of two bid rows of one auction the one with the later
\* createdAt has the strictly greater amount, and when no two rows have the same
\* createdAt the row of latest createdAt is the row of greatest amount
C36_CreatedAtFollowsAmount ==
  \A a \in Created :
    Current =>
      /\ \A i, j \in BidsOf(a) :
           bids[i].createdAt > bids[j].createdAt => bids[i].amount > bids[j].amount
      /\ DistinctTimes(a) => TopByCreatedAt(a) = TopByAmount(a)

\* C37: once no decision is being handled, an auction for which a decision has sent
\* bid_accepted, bid_rejected or auction_closed is closed
C37_DecideNotifiesOnSuccess ==
  \A a \in Created :
    (/\ \A r \in ReqIds : ~(Busy(r) /\ req[r].kind = "decide")
     /\ \E nt \in {"bid_accepted", "bid_rejected", "auction_closed"} :
          Count(broadcasts, "notification", nt, a) > 0)
      => auctions[a].status = "closed"

\* C38: auction:closed is broadcast at most once for an auction
C38_ClosedOnce ==
  \A a \in Created : Count(broadcasts, "auction:closed", "", a) <= 1

\* C39: on the current server an auction that is ended and has no bid row is ended in
\* every later state
C39_EndedWithoutBidsStays ==
  \A a \in AuctionIds :
    [](  (Current /\ auctions[a].status = "ended" /\ BidsOf(a) = {})
           => [](auctions[a].status = "ended"))

====
